---- MODULE Spec2Model ----
(***************************************************************************)
(* Model of factoring_55.py: a fixed 10-qubit circuit for the period       *)
(* finding step of Shor's algorithm for N = 55 (base 12), its ideal        *)
(* simulation, and the post-processing of the measurement counts.          *)
(*                                                                         *)
(* A circuit is a sequence of instructions.  An instruction is a record    *)
(*   [name, qubits, clbits, theta]                                         *)
(* with qubits/clbits the operand indices in call order and theta the      *)
(* rotation angle of a cp gate (0 for the others).  Angles are counted in  *)
(* units of pi/8, the smallest angle the program uses, so that every       *)
(* phase factor is a power of zeta = exp(i*pi/8) and amplitudes are exact  *)
(* elements of Z[zeta] (8 integer coefficients, zeta^8 = -1).  Hadamard is *)
(* applied without its 1/sqrt(2), which scales all amplitudes alike and    *)
(* leaves the set of possible measurement outcomes unchanged.              *)
(*                                                                         *)
(* Strings are sequences of one-character strings; a dict is a sequence of *)
(* <<key, value>> pairs with distinct keys, in insertion order.            *)
(***************************************************************************)
EXTENDS Integers, Sequences, FiniteSets, TLC

VARIABLES
    pc,              \* main: the call main makes next ("done" after the last)
    q,               \* size of the quantum register (0 before it is created)
    c,               \* size of the classical register (0 before it is created)
    circuit,         \* the instructions appended to the QuantumCircuit so far
    counts_ideal,    \* run_simulation: the dict returned by get_counts
    sorted_counts,   \* run_simulation: the dict sorted by count
    decimal_counts,  \* run_simulation: the returned dict
    shown,           \* visualize_results: the figures displayed so far
    basis0,          \* basis-state run: the input basis state
    basis,           \* basis-state run: the current basis state
    applied          \* basis-state run: the gate blocks applied so far

vars == <<pc, q, c, circuit, counts_ideal, sorted_counts, decimal_counts,
          shown, basis0, basis, applied>>

mainVars == <<pc, q, c, circuit, shown>>
countVars == <<counts_ideal, sorted_counts, decimal_counts>>
basisVars == <<basis0, basis, applied>>

----------------------------------------------------------------------------
(* Bounds of the model *)

\* shots of one simulation
MaxShots == 3
\* gate blocks applied in one basis-state run
MaxBlocks == 2

----------------------------------------------------------------------------
(* Program constants *)

\* numpy's pi, in units of pi/8
pi == 8

\* create_quantum_registers' defaults
num_qubits == 10
num_classical == 4

----------------------------------------------------------------------------
(* Circuit construction *)

Gate(name, qubits) ==
    [name |-> name, qubits |-> qubits, clbits |-> <<>>, theta |-> 0]

\* circuit.barrier() with no arguments spans every qubit of the circuit
Barrier == Gate("barrier", [i \in 1..num_qubits |-> i - 1])

CP(theta, control, target) ==
    [name |-> "cp", qubits |-> <<control, target>>, clbits |-> <<>>,
     theta |-> theta]

Measure(qubit, clbit) ==
    [name |-> "measure", qubits |-> <<qubit>>, clbits |-> <<clbit>>,
     theta |-> 0]

\* initialize_circuit: x on q0, h on q6..q9, barrier
InitializeGates ==
    <<Gate("x", <<0>>)>>
    \o [i \in 1..4 |-> Gate("h", <<i + 5>>)]
    \o <<Barrier>>

\* the block commented U^2^0
U_2_0 ==
    << Gate("cx", <<6, 3>>),
       Gate("cx", <<6, 2>>),
       Gate("cx", <<6, 0>>),
       Barrier >>

\* U^2^1 without the x gates around its last ccx
U_2_1_NoX ==
    << Gate("cx", <<7, 0>>),
       Gate("cx", <<7, 1>>),
       Gate("ccx", <<7, 2, 3>>),
       Gate("ccx", <<7, 2, 4>>),
       Gate("ccx", <<7, 4, 5>>),
       Barrier >>

\* the block commented U^2^1
U_2_1 ==
    << Gate("cx", <<7, 0>>),
       Gate("cx", <<7, 1>>),
       Gate("ccx", <<7, 2, 3>>),
       Gate("ccx", <<7, 2, 4>>),
       Gate("x", <<4>>),
       Gate("ccx", <<7, 4, 5>>),
       Gate("x", <<4>>),
       Barrier >>

ControlledGates == U_2_0 \o U_2_1

\* the inverse transform placed one qubit too low, on q5..q8
InverseQftGates_OffByOne ==
    << Gate("swap", <<6, 7>>),
       Gate("swap", <<5, 8>>),
       Gate("h", <<5>>),
       CP(-(pi \div 2), 5, 6),
       Gate("h", <<6>>),
       CP(-(pi \div 4), 5, 7),
       CP(-(pi \div 2), 6, 7),
       Gate("h", <<7>>),
       CP(-(pi \div 8), 5, 8),
       CP(-(pi \div 4), 6, 8),
       CP(-(pi \div 2), 7, 8),
       Gate("h", <<8>>),
       Barrier >>

\* the inverse transform with the angles -pi/4 and -pi/8 exchanged
InverseQftGates_WrongAngles ==
    << Gate("swap", <<7, 8>>),
       Gate("swap", <<6, 9>>),
       Gate("h", <<6>>),
       CP(-(pi \div 2), 6, 7),
       Gate("h", <<7>>),
       CP(-(pi \div 8), 6, 8),
       CP(-(pi \div 2), 7, 8),
       Gate("h", <<8>>),
       CP(-(pi \div 4), 6, 9),
       CP(-(pi \div 8), 7, 9),
       CP(-(pi \div 2), 8, 9),
       Gate("h", <<9>>),
       Barrier >>

\* the inverse transform without its initial swaps
InverseQftGates_NoSwaps ==
    << Gate("h", <<6>>),
       CP(-(pi \div 2), 6, 7),
       Gate("h", <<7>>),
       CP(-(pi \div 4), 6, 8),
       CP(-(pi \div 2), 7, 8),
       Gate("h", <<8>>),
       CP(-(pi \div 8), 6, 9),
       CP(-(pi \div 4), 7, 9),
       CP(-(pi \div 2), 8, 9),
       Gate("h", <<9>>),
       Barrier >>

\* the steps of apply_inverse_qft, in order
InverseQftGates ==
    << Gate("swap", <<7, 8>>),
       Gate("swap", <<6, 9>>),
       Gate("h", <<6>>),
       CP(-(pi \div 2), 6, 7),
       Gate("h", <<7>>),
       CP(-(pi \div 4), 6, 8),
       CP(-(pi \div 2), 7, 8),
       Gate("h", <<8>>),
       CP(-(pi \div 8), 6, 9),
       CP(-(pi \div 4), 7, 9),
       CP(-(pi \div 2), 8, 9),
       Gate("h", <<9>>),
       Barrier >>

\* the measurements placed one qubit too low: measure(q[i+5], c[i])
MeasureGates_OffByOne == [k \in 1..4 |-> Measure((k - 1) + 5, k - 1)]

\* measure_circuit: for i in range(4): measure(q[i+6], c[i])
MeasureGates == [k \in 1..4 |-> Measure((k - 1) + 6, k - 1)]

----------------------------------------------------------------------------
(* Basis states: a basis state of n qubits is a number in 0..2^n-1 whose   *)
(* bit k is the value of qubit k.                                          *)

Bit(b, k) == (b \div (2 ^ k)) % 2

FlipBit(b, k) == IF Bit(b, k) = 0 THEN b + 2 ^ k ELSE b - 2 ^ k

SwapBits(b, j, k) ==
    IF Bit(b, j) = Bit(b, k) THEN b ELSE FlipBit(FlipBit(b, j), k)

\* The basis state a classical (permutation) gate maps b to.  Each of
\* these gates is its own inverse.
PermuteBasis(g, b) ==
    CASE g.name = "x" -> FlipBit(b, g.qubits[1])
      [] g.name = "cx" ->
            IF Bit(b, g.qubits[1]) = 1 THEN FlipBit(b, g.qubits[2]) ELSE b
      [] g.name = "ccx" ->
            IF Bit(b, g.qubits[1]) = 1 /\ Bit(b, g.qubits[2]) = 1
            THEN FlipBit(b, g.qubits[3]) ELSE b
      [] g.name = "swap" -> SwapBits(b, g.qubits[1], g.qubits[2])
      [] OTHER -> b

----------------------------------------------------------------------------
(* Amplitudes in Z[zeta], zeta = exp(i*pi/8): <<a0, ..., a7>> stands for   *)
(* a0 + a1*zeta + ... + a7*zeta^7.                                         *)

AmpZero == [i \in 1..8 |-> 0]
AmpOne == [i \in 1..8 |-> IF i = 1 THEN 1 ELSE 0]
AmpAdd(a, b) == [i \in 1..8 |-> a[i] + b[i]]
AmpSub(a, b) == [i \in 1..8 |-> a[i] - b[i]]

\* a * zeta^t
AmpPhase(a, t) ==
    LET s == t % 16
    IN  [i \in 1..8 |->
            LET j == ((i - 1) - s) % 16
            IN  IF j < 8 THEN a[j + 1] ELSE -a[(j - 8) + 1]]

\* The state after one instruction.  A measurement leaves the amplitudes
\* alone: the outcomes are sampled from the final state.
ApplyGate(g, sv) ==
    CASE g.name \in {"x", "cx", "ccx", "swap"} ->
            [b \in DOMAIN sv |-> sv[PermuteBasis(g, b)]]
      [] g.name = "h" ->
            [b \in DOMAIN sv |->
                IF Bit(b, g.qubits[1]) = 0
                THEN AmpAdd(sv[b], sv[FlipBit(b, g.qubits[1])])
                ELSE AmpSub(sv[FlipBit(b, g.qubits[1])], sv[b])]
      [] g.name = "cp" ->
            [b \in DOMAIN sv |->
                IF Bit(b, g.qubits[1]) = 1 /\ Bit(b, g.qubits[2]) = 1
                THEN AmpPhase(sv[b], g.theta)
                ELSE sv[b]]
      [] OTHER -> sv

RECURSIVE RunGates(_, _)
\* The state after the instructions of circ, in order, from state sv.
RunGates(circ, sv) ==
    IF circ = <<>> THEN sv
    ELSE RunGates(Tail(circ), ApplyGate(Head(circ), sv))

\* The state a circuit of n qubits starts in: every qubit 0.
ZeroState(n) == [b \in 0..(2 ^ n - 1) |-> IF b = 0 THEN AmpOne ELSE AmpZero]

\* The basis states with a nonzero amplitude.
Support(sv) == {b \in DOMAIN sv : sv[b] # AmpZero}

\* v with bit k set to x
SetBit(v, k, x) == v + (x - Bit(v, k)) * 2 ^ k

RECURSIVE Classical(_, _, _)
\* The classical register after the measurements of circ, in order, when
\* the measured state is b and the register holds creg before them.
Classical(circ, b, creg) ==
    IF circ = <<>> THEN creg
    ELSE LET g == Head(circ)
         IN  Classical(Tail(circ), b,
                 IF g.name = "measure"
                 THEN SetBit(creg, g.clbits[1], Bit(b, g.qubits[1]))
                 ELSE creg)

\* The key get_counts gives a register value: its bits, c[nc-1] first.
Bitstring(v, nc) == [i \in 1..nc |-> IF Bit(v, nc - i) = 1 THEN "1" ELSE "0"]

\* The bitstrings an ideal simulation of circ can report.
Outcomes(circ, n, nc) ==
    {Bitstring(Classical(circ, b, 0), nc) : b \in Support(RunGates(circ, ZeroState(n)))}

----------------------------------------------------------------------------
(* Strings and dicts *)

BinaryChars == <<"0", "1">>
DecimalChars == <<"0", "1", "2", "3", "4", "5", "6", "7", "8", "9">>

\* the value of the digit character ch among chars
DigitValue(chars, ch) == (CHOOSE i \in DOMAIN chars : chars[i] = ch) - 1

\* str.replace(" ", ""): the string without its spaces
RemoveSpaces(s) == SelectSeq(s, LAMBDA ch : ch # " ")

RECURSIVE ParseBinary_LsbFirst(_)
\* the digits read with the leftmost least significant
ParseBinary_LsbFirst(s) ==
    IF Len(s) = 1 THEN DigitValue(BinaryChars, s[1])
    ELSE 2 * ParseBinary_LsbFirst(Tail(s)) + DigitValue(BinaryChars, s[1])

RECURSIVE ParseBinary(_)
\* int(s, 2) for a nonempty string of binary digits
ParseBinary(s) ==
    IF Len(s) = 1 THEN DigitValue(BinaryChars, s[1])
    ELSE 2 * ParseBinary(SubSeq(s, 1, Len(s) - 1))
         + DigitValue(BinaryChars, s[Len(s)])

RECURSIVE Str(_)
\* str(n) for n >= 0: the decimal digits of n, most significant first
Str(n) ==
    IF n < 10 THEN <<DecimalChars[n + 1]>>
    ELSE Str(n \div 10) \o <<DecimalChars[(n % 10) + 1]>>

Keys(d) == [i \in DOMAIN d |-> d[i][1]]
Values(d) == [i \in DOMAIN d |-> d[i][2]]
HasKey(d, k) == \E i \in DOMAIN d : d[i][1] = k

\* d[k] = v: a new key is added last, a present key keeps its place
DictSet(d, k, v) ==
    IF HasKey(d, k)
    THEN [i \in DOMAIN d |-> IF d[i][1] = k THEN <<k, v>> ELSE d[i]]
    ELSE Append(d, <<k, v>>)

\* key=lambda item: item[1], which sorts by ascending count
SortKey_Ascending(item) == item[2]

\* key=lambda item: -item[1]
SortKey(item) == -item[2]

RECURSIVE InsertByKey(_, _)
\* item placed in the sorted list after every element whose key is not
\* larger, which keeps equal keys in their original order
InsertByKey(sorted, item) ==
    IF sorted = <<>> THEN <<item>>
    ELSE IF SortKey(Head(sorted)) <= SortKey(item)
         THEN <<Head(sorted)>> \o InsertByKey(Tail(sorted), item)
         ELSE <<item>> \o sorted

RECURSIVE SortByCount(_)
\* dict(sorted(counts_ideal.items(), key=lambda item: -item[1])):
\* ascending by key, stable
SortByCount(items) ==
    IF items = <<>> THEN <<>>
    ELSE InsertByKey(SortByCount(SubSeq(items, 1, Len(items) - 1)),
                     items[Len(items)])

\* the key of one outcome in the returned dict
DecimalKey(binary_state) == Str(ParseBinary(RemoveSpaces(binary_state)))

RECURSIVE ToDecimal(_, _)
\* the loop over sorted_counts.items(), from the dict built so far
ToDecimal(items, result) ==
    IF items = <<>> THEN result
    ELSE ToDecimal(Tail(items),
                   DictSet(result, DecimalKey(Head(items)[1]), Head(items)[2]))

RECURSIVE Sum(_)
Sum(s) == IF s = <<>> THEN 0 ELSE Head(s) + Sum(Tail(s))

Distinct(s) == \A i, j \in DOMAIN s : i # j => s[i] # s[j]

RECURSIVE KeySeqs(_, _)
\* the sequences of n distinct elements of keys
KeySeqs(keys, n) ==
    IF n = 0 THEN {<<>>}
    ELSE {Append(ks, k) : <<ks, k>> \in
             {p \in KeySeqs(keys, n - 1) \X keys :
                 \A i \in DOMAIN p[1] : p[1][i] # p[2]}}

\* The dicts get_counts can return after at most maxShots shots: each key
\* is an outcome that occurred at least once, the keys are distinct and in
\* no particular order, and the counts add up to the number of shots.
CountsDicts(keys, maxShots) ==
    UNION {
        {[i \in 1..n |-> <<ks[i], v[i]>>] :
            <<ks, v>> \in KeySeqs(keys, n)
                          \X {w \in [1..n -> 1..maxShots] : Sum(w) <= maxShots}}
        : n \in 1..maxShots }

----------------------------------------------------------------------------
(* The pipeline of main *)

\* main running the simulation before the measurements are added
main_SimulateBeforeMeasure ==
    << "create_quantum_registers",
       "initialize_circuit",
       "apply_controlled_operations",
       "apply_inverse_qft",
       "run_simulation",
       "measure_circuit",
       "visualize_results" >>

\* the calls of main, in order
main ==
    << "create_quantum_registers",
       "initialize_circuit",
       "apply_controlled_operations",
       "apply_inverse_qft",
       "measure_circuit",
       "run_simulation",
       "visualize_results" >>

\* what main does after a call returns: the next call, or "done"
Return(call) ==
    LET i == CHOOSE k \in DOMAIN main : main[k] = call
    IN  IF i = Len(main) THEN "done" ELSE main[i + 1]

Idle ==
    /\ basis0 = 0
    /\ basis = 0
    /\ applied = <<>>

Init ==
    /\ pc = main[1]
    /\ q = 0
    /\ c = 0
    /\ circuit = <<>>
    /\ counts_ideal = <<>>
    /\ sorted_counts = <<>>
    /\ decimal_counts = <<>>
    /\ shown = <<>>
    /\ Idle

create_quantum_registers ==
    /\ pc = "create_quantum_registers"
    /\ q' = num_qubits
    /\ c' = num_classical
    /\ circuit' = <<>>
    /\ pc' = Return(pc)
    /\ UNCHANGED <<countVars, shown, basisVars>>

initialize_circuit ==
    /\ pc = "initialize_circuit"
    /\ circuit' = circuit \o InitializeGates
    /\ pc' = Return(pc)
    /\ UNCHANGED <<q, c, countVars, shown, basisVars>>

apply_controlled_operations ==
    /\ pc = "apply_controlled_operations"
    /\ circuit' = circuit \o ControlledGates
    /\ pc' = Return(pc)
    /\ UNCHANGED <<q, c, countVars, shown, basisVars>>

apply_inverse_qft ==
    /\ pc = "apply_inverse_qft"
    /\ circuit' = circuit \o InverseQftGates
    /\ pc' = Return(pc)
    /\ UNCHANGED <<q, c, countVars, shown, basisVars>>

measure_circuit ==
    /\ pc = "measure_circuit"
    /\ circuit' = circuit \o MeasureGates
    /\ pc' = Return(pc)
    /\ UNCHANGED <<q, c, countVars, shown, basisVars>>

\* The simulator runs the circuit for some number of shots, 1..MaxShots
\* here, and reports how often each outcome occurred.
run_simulation ==
    /\ pc = "run_simulation"
    /\ \E d \in CountsDicts(Outcomes(circuit, q, c), MaxShots) :
          /\ counts_ideal' = d
          /\ sorted_counts' = SortByCount(d)
          /\ decimal_counts' = ToDecimal(SortByCount(d), <<>>)
    /\ pc' = Return(pc)
    /\ UNCHANGED <<q, c, circuit, shown, basisVars>>

visualize_results ==
    /\ pc = "visualize_results"
    /\ shown' = << [figure |-> "circuit", data |-> circuit],
                   [figure |-> "histogram", data |-> decimal_counts] >>
    /\ pc' = Return(pc)
    /\ UNCHANGED <<q, c, circuit, countVars, basisVars>>

Next ==
    \/ create_quantum_registers
    \/ initialize_circuit
    \/ apply_controlled_operations
    \/ apply_inverse_qft
    \/ measure_circuit
    \/ run_simulation
    \/ visualize_results

Spec == Init /\ [][Next]_vars

----------------------------------------------------------------------------
(* The controlled gates on basis states: the gate blocks applied to each  *)
(* basis state of the ten qubits.                                          *)

RECURSIVE RunClassical(_, _)
\* The basis state after the instructions of gates, in order, from b.
RunClassical(gates, b) ==
    IF gates = <<>> THEN b
    ELSE RunClassical(Tail(gates), PermuteBasis(Head(gates), b))

InitBasis ==
    /\ pc = "basis"
    /\ q = num_qubits
    /\ c = num_classical
    /\ circuit = <<>>
    /\ counts_ideal = <<>>
    /\ sorted_counts = <<>>
    /\ decimal_counts = <<>>
    /\ shown = <<>>
    /\ basis0 \in 0..(2 ^ num_qubits - 1)
    /\ basis = basis0
    /\ applied = <<>>

ApplyU20 ==
    /\ Len(applied) < MaxBlocks
    /\ basis' = RunClassical(U_2_0, basis)
    /\ applied' = Append(applied, "U^2^0")
    /\ UNCHANGED <<basis0, mainVars, countVars>>

ApplyU21 ==
    /\ Len(applied) < MaxBlocks
    /\ basis' = RunClassical(U_2_1, basis)
    /\ applied' = Append(applied, "U^2^1")
    /\ UNCHANGED <<basis0, mainVars, countVars>>

NextBasis ==
    \/ ApplyU20
    \/ ApplyU21

SpecBasis == InitBasis /\ [][NextBasis]_vars

----------------------------------------------------------------------------
(* The post-processing of run_simulation on every counts dict of 4-bit    *)
(* outcomes that at most MaxShots shots can give.                          *)

AllBitstrings(nc) == {Bitstring(v, nc) : v \in 0..(2 ^ nc - 1)}

InitCounts ==
    /\ pc = "post_process"
    /\ q = num_qubits
    /\ c = num_classical
    /\ circuit = <<>>
    /\ counts_ideal \in CountsDicts(AllBitstrings(c), MaxShots)
    /\ sorted_counts = <<>>
    /\ decimal_counts = <<>>
    /\ shown = <<>>
    /\ Idle

PostProcess ==
    /\ pc = "post_process"
    /\ sorted_counts' = SortByCount(counts_ideal)
    /\ decimal_counts' = ToDecimal(SortByCount(counts_ideal), <<>>)
    /\ pc' = "returned"
    /\ UNCHANGED <<q, c, circuit, counts_ideal, shown, basisVars>>

NextCounts == PostProcess

SpecCounts == InitCounts /\ [][NextCounts]_vars

----------------------------------------------------------------------------
(* Properties of the pipeline *)

\* the instructions a step appends to the circuit
Appended == SubSeq(circuit', Len(circuit) + 1, Len(circuit'))

AppendsOnly ==
    /\ Len(circuit') >= Len(circuit)
    /\ SubSeq(circuit', 1, Len(circuit)) = circuit

HasMeasure(circ) == \E i \in DOMAIN circ : circ[i].name = "measure"

IsGate(g) == g.name \notin {"measure", "barrier"}

PipelineOrder ==
    { <<"create_quantum_registers", "initialize_circuit">>,
      <<"initialize_circuit", "apply_controlled_operations">>,
      <<"apply_controlled_operations", "apply_inverse_qft">>,
      <<"apply_inverse_qft", "measure_circuit">>,
      <<"measure_circuit", "run_simulation">>,
      <<"run_simulation", "visualize_results">>,
      <<"visualize_results", "done">> }

C1_Step ==
    /\ <<pc, pc'>> \in PipelineOrder
    /\ AppendsOnly
    \* a gate is appended only while the circuit holds no measurement
    /\ (\E i \in DOMAIN Appended : IsGate(Appended[i])) => ~HasMeasure(circuit)
    \* the stages that build the circuit append to it, the others do not
    /\ pc \in {"initialize_circuit", "apply_controlled_operations",
               "apply_inverse_qft"}
          => /\ \E i \in DOMAIN Appended : IsGate(Appended[i])
             /\ ~HasMeasure(circuit')
    /\ pc = "measure_circuit"
          => /\ Appended # <<>>
             /\ \A i \in DOMAIN Appended : Appended[i].name = "measure"
    \* the simulation runs the finished circuit, measurements included,
    \* and its counts are post-processed in the same stage
    /\ pc = "run_simulation"
          => /\ circuit' = circuit
             /\ HasMeasure(circuit)
             /\ counts_ideal = <<>> /\ counts_ideal' # <<>>
             /\ decimal_counts = <<>> /\ decimal_counts' # <<>>
    /\ pc # "run_simulation" => UNCHANGED countVars
    \* the plot shows the post-processed counts and is the last stage
    /\ pc = "visualize_results"
          => /\ circuit' = circuit
             /\ shown = <<>>
             /\ \E i \in DOMAIN shown' : shown'[i].data = decimal_counts
    /\ pc # "visualize_results" => UNCHANGED shown

\* C1: main runs the stages build registers, initialize, controlled gates,
\* inverse transform, measure, simulate and post-process, plot in exactly
\* this order, each once: every gate is appended before any measurement,
\* every measurement before the simulation, and nothing runs after the plot.
C1_PipelineOrder ==
    /\ pc = "create_quantum_registers"
    /\ [][C1_Step]_vars
    /\ [](pc = "done" => ~ENABLED Next)

C1_Witness ==
    /\ pc = "done"
    /\ Len(shown) = 2
    /\ Len(decimal_counts) = 2
    /\ HasMeasure(circuit)

\* C3: every swap, h and cp appended by apply_inverse_qft has all its
\* operands among qubits 6..9 and none among the classical bits, so the
\* instructions it appends leave the work qubits 0..5 of a basis state
\* unchanged; the step leaves the registers, the counts and the
\* instructions already appended unchanged.
C3_InverseQftFrame ==
    [][pc = "apply_inverse_qft" =>
          /\ AppendsOnly
          /\ \E i \in DOMAIN Appended : IsGate(Appended[i])
          /\ \A i \in DOMAIN Appended :
                IsGate(Appended[i]) =>
                    /\ Appended[i].name \in {"swap", "h", "cp"}
                    /\ \A k \in DOMAIN Appended[i].qubits :
                          Appended[i].qubits[k] \in 6..9
                    /\ Appended[i].clbits = <<>>
          \* run on a basis state (every value of the work qubits, the
          \* counting qubits all 0 or all 1), the appended instructions
          \* leave the work qubits of every component of the result as
          \* they were
          /\ \A b \in {w + 64 * x : w \in 0..63, x \in {0, 15}} :
                \A b2 \in Support(RunGates(Appended,
                              [x \in 0..(2 ^ q - 1) |->
                                  IF x = b THEN AmpOne ELSE AmpZero])) :
                    b2 % 64 = b % 64
          /\ UNCHANGED <<q, c, countVars>>]_vars

C3_Witness ==
    /\ pc = "measure_circuit"
    /\ \E i \in DOMAIN circuit : circuit[i].name = "swap"
    /\ \E i \in DOMAIN circuit : circuit[i].name = "cp"

\* the measurements of a circuit, in order
Measurements(circ) == SelectSeq(circ, LAMBDA g : g.name = "measure")

\* the number a string of binary digits denotes, leftmost digit most
\* significant
BinaryValue(s) ==
    LET n == Len(s)
        RECURSIVE Upto(_)
        Upto(i) == IF i = 0 THEN 0
                   ELSE Upto(i - 1)
                        + (IF s[i] = "1" THEN 2 ^ (n - i) ELSE 0)
    IN  Upto(n)

\* C4: once measure_circuit has run the circuit measures exactly q[i+6]
\* into c[i] for i = 0..3, each classical bit once, and never a work qubit;
\* so the reported bitstring read as a binary number is the value of the
\* counting qubits with q6 least and q9 most significant.
C4_MeasuresCountingQubits ==
    /\ \A i \in DOMAIN circuit :
          circuit[i].name = "measure" => circuit[i].qubits[1] \in 6..9
    /\ pc \in {"run_simulation", "visualize_results", "done"} =>
          /\ Len(Measurements(circuit)) = 4
          /\ \A i \in 0..3 :
                /\ Measurements(circuit)[i + 1].qubits = <<i + 6>>
                /\ Measurements(circuit)[i + 1].clbits = <<i>>
          /\ \A k \in 0..(c - 1) :
                Cardinality({i \in DOMAIN circuit :
                                /\ circuit[i].name = "measure"
                                /\ circuit[i].clbits = <<k>>}) = 1
          /\ \A b \in 0..(2 ^ q - 1) :
                BinaryValue(Bitstring(Classical(circuit, b, 0), c))
                    = Bit(b, 6) + 2 * Bit(b, 7) + 4 * Bit(b, 8) + 8 * Bit(b, 9)

C4_Witness ==
    /\ pc = "run_simulation"
    /\ Len(Measurements(circuit)) = 4
\* the places in gates of the gate named name on exactly these qubits
Places(gates, name, qubits) ==
    {i \in DOMAIN gates :
        /\ gates[i].name = name
        /\ {gates[i].qubits[k] : k \in DOMAIN gates[i].qubits} = qubits}

\* the qubits 6..9 in reverse order: 6 <-> 9, 7 <-> 8
Reversed(b) ==
    SetBit(SetBit(SetBit(SetBit(b, 6, Bit(b, 9)), 7, Bit(b, 8)),
                  8, Bit(b, 7)), 9, Bit(b, 6))

\* C6: the instructions apply_inverse_qft appends begin with the swaps
\* (7,8) and (6,9), which reverse the order of qubits 6..9; each of the
\* qubits 6..9 gets exactly one Hadamard; each pair j < k in 6..9 gets
\* exactly one cp, with angle -pi/2^(k-j), placed after the Hadamard on j
\* and before the Hadamard on k; and there is no other swap or cp.
C6_InverseQftStructure ==
    [][pc = "apply_inverse_qft" =>
          LET new == Appended
              H(j) == Places(new, "h", {j})
              P(j, k) == Places(new, "cp", {j, k})
          IN  /\ Len(new) >= 2
              /\ new[1].name = "swap" /\ new[1].qubits = <<7, 8>>
              /\ new[2].name = "swap" /\ new[2].qubits = <<6, 9>>
              /\ \A b \in 0..(2 ^ q - 1) :
                    RunClassical(SubSeq(new, 1, 2), b) = Reversed(b)
              /\ Cardinality({i \in DOMAIN new : new[i].name = "swap"}) = 2
              /\ Cardinality({i \in DOMAIN new : new[i].name = "h"}) = 4
              /\ Cardinality({i \in DOMAIN new : new[i].name = "cp"}) = 6
              /\ \A j \in 6..9 :
                    /\ Cardinality(H(j)) = 1
                    /\ \A i \in H(j) : i > 2
              /\ \A j \in 6..9 : \A k \in (j + 1)..9 :
                    /\ Cardinality(P(j, k)) = 1
                    /\ \A i \in P(j, k) :
                          /\ new[i].qubits = <<j, k>>
                          /\ new[i].theta * 2 ^ (k - j) = -pi
                          /\ \A hj \in H(j) : hj < i
                          /\ \A hk \in H(k) : i < hk]_vars

C6_Witness ==
    /\ pc = "measure_circuit"
    /\ Cardinality(Places(circuit, "cp", {6, 9})) = 1
    /\ Cardinality(Places(circuit, "swap", {6, 9})) = 1

\* C9: every outcome of the circuit built by main has c[0] = c[1] = 0
\* (the last two characters of its bitstring), so every key returned by
\* run_simulation is one of "0", "4", "8", "12".
C9_OutcomesMultipleOfFour ==
    /\ \A i \in DOMAIN counts_ideal :
          /\ Len(counts_ideal[i][1]) = 4
          /\ counts_ideal[i][1][3] = "0"
          /\ counts_ideal[i][1][4] = "0"
    /\ \A i \in DOMAIN decimal_counts :
          decimal_counts[i][1] \in {<<"0">>, <<"4">>, <<"8">>, <<"1", "2">>}

C9_Witness ==
    /\ pc = "done"
    /\ Len(decimal_counts) = 3
    /\ \E i \in DOMAIN decimal_counts : decimal_counts[i][1] = <<"1", "2">>
    /\ \E i \in DOMAIN decimal_counts : decimal_counts[i][1] = <<"4">>

----------------------------------------------------------------------------
(* Properties of the controlled gates on basis states *)

\* the work register q0..q5 and the counting register q6..q9 of a state
Work(b) == b % 64
Counting(b) == b \div 64

RECURSIVE PowMod(_, _, _)
\* a^x mod n
PowMod(a, x, n) == IF x = 0 THEN 1 % n ELSE (a * PowMod(a, x - 1, n)) % n

\* C2: from a basis state whose work register holds 1 and whose counting
\* register holds x, the controlled gates leave 12^x mod 55 in the work
\* register (1, 12, 34, 23 for x mod 4 = 0, 1, 2, 3) and x in the counting
\* register.
C2_ModularExponentiation ==
    (applied = <<"U^2^0", "U^2^1">> /\ Work(basis0) = 1) =>
        /\ Work(basis) = PowMod(12, Counting(basis0), 55)
        /\ Work(basis) = <<1, 12, 34, 23>>[(Counting(basis0) % 4) + 1]
        /\ Counting(basis) = Counting(basis0)

C2_Witness ==
    /\ applied = <<"U^2^0", "U^2^1">>
    /\ Work(basis0) = 1
    /\ Counting(basis0) = 15
    /\ Work(basis) = 23

\* C7: for every basis state with q7 = 1 the block U^2^1 leaves the work
\* register in the state the block U^2^0, with q6 = 1, leaves it in when
\* applied twice.
C7_SecondBlockIsSquare ==
    (applied = <<"U^2^1">> /\ Bit(basis0, 7) = 1) =>
        Work(basis) = Work(RunClassical(U_2_0 \o U_2_0, SetBit(basis0, 6, 1)))

----------------------------------------------------------------------------
(* Properties of the post-processing *)

\* the number a string of decimal digits denotes
DecimalValue(s) ==
    LET n == Len(s)
        RECURSIVE Upto(_)
        Upto(i) == IF i = 0 THEN 0
                   ELSE Upto(i - 1)
                        + DigitValue(DecimalChars, s[i]) * 10 ^ (n - i)
    IN  Upto(n)

\* s is the base-10 string of n: its digits denote n, with no leading zero
IsDecimalOf(s, n) ==
    /\ Len(s) >= 1
    /\ \A i \in DOMAIN s : \E d \in DOMAIN DecimalChars : DecimalChars[d] = s[i]
    /\ Len(s) > 1 => s[1] # "0"
    /\ DecimalValue(s) = n

\* C5: every returned entry is the base-10 string of the value of one
\* bitstring of the simulator's dict with that bitstring's count, and every
\* bitstring has its entry; the keys are distinct and denote 0..15, so the
\* number of entries and the sum of the counts are the simulator's.
C5_DecimalCounts ==
    pc = "returned" =>
        /\ \A i \in DOMAIN decimal_counts :
              \E j \in DOMAIN counts_ideal :
                 /\ IsDecimalOf(decimal_counts[i][1],
                                BinaryValue(counts_ideal[j][1]))
                 /\ decimal_counts[i][2] = counts_ideal[j][2]
        /\ \A j \in DOMAIN counts_ideal :
              \E i \in DOMAIN decimal_counts :
                 /\ IsDecimalOf(decimal_counts[i][1],
                                BinaryValue(counts_ideal[j][1]))
                 /\ decimal_counts[i][2] = counts_ideal[j][2]
        /\ Distinct(Keys(decimal_counts))
        /\ \A i \in DOMAIN decimal_counts :
              DecimalValue(decimal_counts[i][1]) \in 0..15
        /\ Len(decimal_counts) = Len(counts_ideal)
        /\ Sum(Values(decimal_counts)) = Sum(Values(counts_ideal))

C5_Witness ==
    /\ pc = "returned"
    /\ Len(counts_ideal) = 2
    /\ \E i \in DOMAIN counts_ideal :
          counts_ideal[i] = <<<<"1", "1", "0", "1">>, 2>>
    /\ \E i \in DOMAIN decimal_counts :
          decimal_counts[i] = <<<<"1", "3">>, 2>>

\* C8: the entries of the returned dict are in non-increasing order of
\* count.
C8_SortedByCount ==
    pc = "returned" =>
        \A i, j \in DOMAIN decimal_counts :
            i < j => decimal_counts[i][2] >= decimal_counts[j][2]

C8_Witness ==
    /\ pc = "returned"
    /\ Len(counts_ideal) = 2
    /\ counts_ideal[1][2] < counts_ideal[2][2]
    /\ decimal_counts[1][2] > decimal_counts[2][2]

====
